---- MODULE Spec2Model ----
(***************************************************************************)
(* Model of the two Cloud Functions of the Pinnacle Wellness Assessment    *)
(* backend (syncToMailchimp, sendResultsEmail) and of the pure scoring     *)
(* helpers they use.                                                       *)
(*                                                                         *)
(* JavaScript strings that the code transforms (email addresses) are       *)
(* sequences of one-character strings, so that toLowerCase is computed.    *)
(* A field of the Firestore record is [has |-> presence, v |-> value]:     *)
(* "has" is what hasOwnProperty answers, v is the value read (the value    *)
(* of an absent field is never inspected by the truthiness operators).     *)
(***************************************************************************)
EXTENDS Integers, Sequences, FiniteSets, TLC

VARIABLES
    data,             \* the record delivered by event.data?.data()
    mcPc,             \* syncToMailchimp: "idle" | "awaitPut" | "done"
    mcCalls,          \* axios.put calls issued, in order, with their outcome
    mcLog,            \* console output of syncToMailchimp
    mcResult,         \* how the handler's promise ended: "none" | "resolved" | "rejected"
    srPc,             \* sendResultsEmail: "idle" | "awaitAll" | "done"
    emailsToSend,     \* the recipient tasks built by sendResultsEmail
    sends,            \* sgMail.send calls issued, in order, with their state
    srLog,            \* console output of sendResultsEmail
    srResult,         \* how the handler's promise ended
    score,            \* argument of the scoring helpers (SpecInterp)
    label,            \* result of getInterpretation(score)
    color,            \* result of getScoreColor(score)
    domainInterp,     \* result of getDomainInterpretation(score)
    domainScoresHtml, \* result of generateDomainScoresHtml() (SpecRender)
    asEmail,          \* addSubscriber: its argument
    asPc,             \* addSubscriber: "idle" | "awaitPost" | "done"
    asCalls,          \* axios.post calls issued, in order
    asLog,            \* console output of addSubscriber
    asResult          \* how the promise addSubscriber returns ended

vars == <<data, mcPc, mcCalls, mcLog, mcResult, srPc, emailsToSend, sends,
          srLog, srResult, score, label, color, domainInterp, domainScoresHtml,
          asEmail, asPc, asCalls, asLog, asResult>>

mcVars == <<mcPc, mcCalls, mcLog, mcResult>>
srVars == <<srPc, emailsToSend, sends, srLog, srResult>>
fnVars == <<score, label, color, domainInterp, domainScoresHtml>>
asVars == <<asEmail, asPc, asCalls, asLog, asResult>>

(***************************************************************************)
(* Bounds of the model.                                                    *)
(***************************************************************************)
MaxScore == 260      \* scores range over -NegScores .. MaxScore
NegScores == 3
MaxDomains == 2      \* entries of a domainScores mapping (SpecRender)
MaxEmailLen == 3     \* characters of addSubscriber's argument (SpecSubscriber)

(***************************************************************************)
(* JavaScript values.                                                      *)
(***************************************************************************)
EmptyString == <<>>

Absent(dummy) == [has |-> FALSE, v |-> dummy]
Present(val) == [has |-> TRUE, v |-> val]

\* Truthiness of a string-valued field read as data.f: undefined and "" are falsy.
TruthyStr(f) == f.has /\ Len(f.v) > 0

\* Truthiness of a boolean-valued field read as data.f.
TruthyBool(f) == f.has /\ f.v = TRUE

\* String.prototype.toLowerCase on the characters the model's addresses use.
LowerChar(c) ==
    CASE c = "A" -> "a"
      [] c = "B" -> "b"
      [] c = "C" -> "c"
      [] c = "P" -> "p"
      [] OTHER -> c

toLowerCase(s) == [i \in 1..Len(s) |-> LowerChar(s[i])]

\* crypto.createHash('md5').update(s).digest('hex'): an uninterpreted,
\* injective digest of its input.
md5hex(s) == [digest |-> "md5", of |-> s]

(***************************************************************************)
(* The records an invocation can be handed (SurveyRecord).                 *)
(***************************************************************************)
Addr1 == <<"a", "@", "b">>
Addr2 == <<"A", "@", "B">>       \* same mailbox as Addr1, written in capitals
ClientAddr == <<"c", "@", "b">>
PractAddr == <<"P", "@", "b">>

EmailFields == {Absent(EmptyString), Present(EmptyString), Present(Addr1), Present(Addr2)}
NewsletterFields == {Absent(FALSE), Present(FALSE), Present(TRUE)}
ClientFields == {Absent(EmptyString), Present(EmptyString), Present(ClientAddr)}
PractFields == {Absent(EmptyString), Present(EmptyString), Present(PractAddr)}
TotalScores == {83, 252}
Timestamps == {Absent(0), Present(20240315)}

\* domainScores is kept in insertion order, the order Object.entries yields.
DomainScoreSamples ==
    { Absent(<<>>),
      Present(<<[domain |-> "Attention Check", score |-> 10],
                [domain |-> "Overall Wellness", score |-> 200],
                [domain |-> "Physical Wellness", score |-> 15]>>),
      Present(<<[domain |-> "Physical Wellness", score |-> 20]>>) }

\* event.data?.data() is undefined: the handlers return at once.
NoData ==
    [exists |-> FALSE, email |-> Absent(EmptyString),
     subscribeNewsletter |-> Absent(FALSE), clientEmail |-> Absent(EmptyString),
     practitionerEmail |-> Absent(EmptyString), totalScore |-> 0,
     domainScores |-> Absent(<<>>), timestamp |-> Absent(0)]

Records ==
    [exists : {TRUE}, email : EmailFields, subscribeNewsletter : NewsletterFields,
     clientEmail : ClientFields, practitionerEmail : PractFields,
     totalScore : TotalScores, domainScores : DomainScoreSamples,
     timestamp : Timestamps]
    \cup {NoData}

(***************************************************************************)
(* syncToMailchimp                                                         *)
(***************************************************************************)
\* The guard's negation, without the truthiness test of subscribeNewsletter.
SkipMailchimp_PresenceOnly(d) ==
    ~TruthyStr(d.email) \/ ~d.subscribeNewsletter.has

\* if (!email || !wantsNewsletter || !data.hasOwnProperty('subscribeNewsletter'))
SkipMailchimp(d) ==
    \/ ~TruthyStr(d.email)
    \/ ~TruthyBool(d.subscribeNewsletter)
    \/ ~d.subscribeNewsletter.has

\* The request of axios.put(url, subscriber, ...): the member hash of the url
\* and the body.
MailchimpPut(d) ==
    [method |-> "PUT",
     hash |-> md5hex(toLowerCase(d.email.v)),
     email_address |-> d.email.v,
     status |-> "subscribed",
     tags |-> <<"Audience", "PWA">>,
     state |-> "inflight"]

\* The handler with its guard also reading the notifier's progress, as if the
\* two functions kept a shared "handled" flag for the record.
SyncToMailchimp_Shared ==
    /\ mcPc = "idle"
    /\ IF ~data.exists
         THEN /\ mcPc' = "done"
              /\ mcResult' = "resolved"
              /\ UNCHANGED <<mcCalls, mcLog>>
         ELSE IF SkipMailchimp(data) \/ srPc # "idle"
         THEN /\ mcLog' = Append(mcLog, "Skipping Mailchimp")
              /\ mcPc' = "done"
              /\ mcResult' = "resolved"
              /\ UNCHANGED mcCalls
         ELSE /\ mcLog' = Append(mcLog, "Sending Mailchimp data")
              /\ mcCalls' = Append(mcCalls, MailchimpPut(data))
              /\ mcPc' = "awaitPut"
              /\ UNCHANGED mcResult
    /\ UNCHANGED <<data, asVars, srVars, fnVars>>

\* The handler up to its first await.
SyncToMailchimp ==
    /\ mcPc = "idle"
    /\ IF ~data.exists
         THEN /\ mcPc' = "done"
              /\ mcResult' = "resolved"
              /\ UNCHANGED <<mcCalls, mcLog>>
         ELSE IF SkipMailchimp(data)
         THEN /\ mcLog' = Append(mcLog, "Skipping Mailchimp")
              /\ mcPc' = "done"
              /\ mcResult' = "resolved"
              /\ UNCHANGED mcCalls
         ELSE /\ mcLog' = Append(mcLog, "Sending Mailchimp data")
              /\ mcCalls' = Append(mcCalls, MailchimpPut(data))
              /\ mcPc' = "awaitPut"
              /\ UNCHANGED mcResult
    /\ UNCHANGED <<data, asVars, srVars, fnVars>>

\* The put resolves: the try block ends and the handler returns.
MailchimpPutResolves ==
    /\ mcPc = "awaitPut"
    /\ mcCalls' = [mcCalls EXCEPT ![Len(mcCalls)].state = "fulfilled"]
    /\ mcLog' = Append(mcLog, "Mailchimp response")
    /\ mcPc' = "done"
    /\ mcResult' = "resolved"
    /\ UNCHANGED <<data, asVars, srVars, fnVars>>

\* A catch block that logs and throws the error again.
MailchimpPutRejects_Rethrow(kind) ==
    /\ mcPc = "awaitPut"
    /\ mcCalls' = [mcCalls EXCEPT ![Len(mcCalls)].state = kind]
    /\ mcLog' = Append(mcLog, "Mailchimp error")
    /\ mcPc' = "done"
    /\ mcResult' = "rejected"
    /\ UNCHANGED <<data, asVars, srVars, fnVars>>

\* The put rejects, with an API error response ("httpError") or without any
\* response ("networkError"): the catch block logs error.response?.data ||
\* error.message and the handler returns.
MailchimpPutRejects(kind) ==
    /\ mcPc = "awaitPut"
    /\ mcCalls' = [mcCalls EXCEPT ![Len(mcCalls)].state = kind]
    /\ mcLog' = Append(mcLog, "Mailchimp error")
    /\ mcPc' = "done"
    /\ mcResult' = "resolved"
    /\ UNCHANGED <<data, asVars, srVars, fnVars>>

(***************************************************************************)
(* Scoring helpers                                                         *)
(***************************************************************************)
\* getInterpretation with strict comparisons.
getInterpretation_Strict(s) ==
    IF s > 252 THEN "Thriving"
    ELSE IF s > 168 THEN "Balanced"
    ELSE IF s > 84 THEN "Needs Attention"
    ELSE "Critical"

getInterpretation(s) ==
    IF s >= 252 THEN "Thriving"
    ELSE IF s >= 168 THEN "Balanced"
    ELSE IF s >= 84 THEN "Needs Attention"
    ELSE "Critical"

getScoreColor(s) ==
    IF s >= 252 THEN "#22c55e"
    ELSE IF s >= 168 THEN "#3b82f6"
    ELSE IF s >= 84 THEN "#f59e0b"
    ELSE "#ef4444"

\* getDomainInterpretation with strict comparisons.
getDomainInterpretation_Strict(s) ==
    IF s > 18 THEN [label |-> "Thriving", color |-> "#22c55e"]
    ELSE IF s > 12 THEN [label |-> "Balanced", color |-> "#3b82f6"]
    ELSE IF s > 6 THEN [label |-> "Needs Attention", color |-> "#f59e0b"]
    ELSE [label |-> "Critical", color |-> "#ef4444"]

getDomainInterpretation(s) ==
    IF s >= 18 THEN [label |-> "Thriving", color |-> "#22c55e"]
    ELSE IF s >= 12 THEN [label |-> "Balanced", color |-> "#3b82f6"]
    ELSE IF s >= 6 THEN [label |-> "Needs Attention", color |-> "#f59e0b"]
    ELSE [label |-> "Critical", color |-> "#ef4444"]

(***************************************************************************)
(* sendResultsEmail: the domain list                                       *)
(***************************************************************************)
\* The object literal domainDescriptions. Two of its keys carry letters with
\* macrons in the source ('Aina Momona, 'Oiwi); they are written without.
domainDescriptions ==
    [k \in {"'Aina Momona", "Waiwai", "Financial Wellness", "Social Wellness",
            "Environmental Wellness", "Spiritual Wellness",
            "Occupational Wellness", "Pilina", "Emotional Wellness",
            "Ke Akua Mana", "Intellectual Wellness", "'Oiwi", "Ea",
            "Physical Wellness", "Overall Wellness"} |->
        CASE k = "'Aina Momona" -> "Connection to land and environmental stewardship"
          [] k = "Waiwai" -> "Financial health and decision-making"
          [] k = "Financial Wellness" -> "Financial health and decision-making"
          [] k = "Social Wellness" -> "Relationships with friends, family, and co-workers"
          [] k = "Environmental Wellness" -> "Sustainable surroundings that support well-being"
          [] k = "Spiritual Wellness" -> "Sense of meaning, belief, or faith practices"
          [] k = "Occupational Wellness" -> "Purpose and fulfillment in work or daily roles"
          [] k = "Pilina" -> "Close-knit connections and trust in relationships"
          [] k = "Emotional Wellness" -> "Balance, resilience, and emotional awareness"
          [] k = "Ke Akua Mana" -> "Spiritual and ancestral power, identity, and connection"
          [] k = "Intellectual Wellness" -> "Lifelong learning and cognitive engagement"
          [] k = "'Oiwi" -> "Cultural identity and personal growth"
          [] k = "Ea" -> "Empowerment, agency, and life direction"
          [] k = "Physical Wellness" -> "Bodily health, activity, and nourishment"
          [] OTHER -> "General wellness perspective"]

\* domainDescriptions is an object literal, so domainDescriptions[domain]
\* also finds what it inherits from Object.prototype; each of these values is
\* truthy, and a template literal renders it as the text given here.
ObjectPrototype ==
    [k \in {"constructor", "toString"} |->
        IF k = "constructor" THEN "function Object() { [native code] }"
        ELSE "function toString() { [native code] }"]

\* domainDescriptions[domain] || ""
descriptionOf(domain) ==
    IF domain \in DOMAIN domainDescriptions THEN domainDescriptions[domain]
    ELSE IF domain \in DOMAIN ObjectPrototype THEN ObjectPrototype[domain]
    ELSE ""

\* The <li> rendered for one entry; description "" renders no description div.
domainItem(e) ==
    [domain |-> e.domain,
     score |-> e.score,
     label |-> getDomainInterpretation(e.score).label,
     color |-> getDomainInterpretation(e.score).color,
     description |-> descriptionOf(e.domain)]

\* The filter's predicate.
keepDomain(domain) == domain # "Attention Check" /\ domain # "Overall Wellness"

\* Object.entries(data.domainScores || {}).filter(...).map(...).join("")
generateDomainScoresHtml(d) ==
    LET entries == IF d.domainScores.has THEN d.domainScores.v ELSE <<>>
    IN  [i \in 1..Len(SelectSeq(entries, LAMBDA e : keepDomain(e.domain))) |->
            domainItem(SelectSeq(entries, LAMBDA e : keepDomain(e.domain))[i])]

(***************************************************************************)
(* sendResultsEmail                                                        *)
(***************************************************************************)
\* The discriminator computed from truthiness instead of presence.
isPractitionerAssessment_Truthy(d) ==
    TruthyStr(d.practitionerEmail) \/ TruthyStr(d.clientEmail)

\* data.hasOwnProperty('practitionerEmail') || data.hasOwnProperty('clientEmail')
isPractitionerAssessment(d) == d.practitionerEmail.has \/ d.clientEmail.has

\* The recipient tasks, in the order they are pushed.
recipientTasks(d) ==
    IF isPractitionerAssessment(d)
    THEN (IF TruthyStr(d.clientEmail)
            THEN <<[email |-> d.clientEmail.v, type |-> "client"]>> ELSE <<>>)
         \o
         (IF TruthyStr(d.practitionerEmail)
            THEN <<[email |-> d.practitionerEmail.v, type |-> "practitioner"]>> ELSE <<>>)
    ELSE IF TruthyStr(d.email)
    THEN <<[email |-> d.email.v, type |-> "original"]>>
    ELSE <<>>

\* The subject with the first two branches taken for the practitioner too.
subjectOf_Same(type) == "Your Pinnacle Wellness Assessment Results"

\* The subject chosen by the if / else if / else over the task's type.
subjectOf(type) ==
    IF type = "original" THEN "Your Pinnacle Wellness Assessment Results"
    ELSE IF type = "client" THEN "Your Pinnacle Wellness Assessment Results"
    ELSE "Client Wellness Assessment Results"

\* new Date(data.timestamp?.toDate()).toLocaleDateString(): month, day, year
\* of the timestamp, or "Invalid Date" (the empty sequence) without one.
toLocaleDateString(ts) ==
    IF ts.has THEN <<(ts.v \div 100) % 100, ts.v % 100, ts.v \div 10000>> ELSE <<>>

\* The html of one email: the template chosen by the task's type and what it
\* embeds of the record. Only the practitioner template has the block with
\* the assessment date and, when clientEmail is truthy, the client's address.
htmlContent(d, type) ==
    [template |-> IF type = "original" THEN "original"
                  ELSE IF type = "client" THEN "client" ELSE "practitioner",
     totalScore |-> d.totalScore,
     interpretation |-> getInterpretation(d.totalScore),
     domainScoresHtml |-> generateDomainScoresHtml(d),
     practitionerBlock |->
        IF type # "original" /\ type # "client"
        THEN [shown |-> TRUE, date |-> toLocaleDateString(d.timestamp),
              clientEmail |-> IF TruthyStr(d.clientEmail) THEN d.clientEmail.v
                              ELSE EmptyString]
        ELSE [shown |-> FALSE, date |-> <<>>, clientEmail |-> EmptyString]]

\* The argument of one sgMail.send call, with the state of its promise.
sendCall(d, task) ==
    [to |-> task.email,
     from |-> "support@pegasusrealm.com",
     subject |-> subjectOf(task.type),
     html |-> htmlContent(d, task.type),
     state |-> "inflight"]

\* emailsToSend.map(...): one send per task, all issued before the await.
emailPromises(d, tasks) == [i \in 1..Len(tasks) |-> sendCall(d, tasks[i])]

\* Promise.allSettled in the place of Promise.all: settles when every send
\* has settled, and never rejects.
PromiseAll_Settled(ps) ==
    IF \A i \in 1..Len(ps) : ps[i].state # "inflight" THEN "fulfilled" ELSE "pending"

\* Promise.all: rejects as soon as one promise rejects, fulfils when all have.
PromiseAll(ps) ==
    IF \E i \in 1..Len(ps) : ps[i].state = "rejected" THEN "rejected"
    ELSE IF \A i \in 1..Len(ps) : ps[i].state = "fulfilled" THEN "fulfilled"
    ELSE "pending"

LogLine(msg) == [msg |-> msg, type |-> ""]

\* responses.forEach: one status line per task, in task order.
statusLines(tasks) ==
    [i \in 1..Len(tasks) |-> [msg |-> "email - Status", type |-> tasks[i].type]]

\* The four console.error calls of the catch block.
failureLines ==
    <<LogLine("Failed to send assessment emails"), LogLine("Error message"),
      LogLine("Error response body"), LogLine("Full error object")>>

\* The handler up to its await: recipients, rendering, the sends.
SendResultsEmail ==
    /\ srPc = "idle"
    /\ IF ~data.exists
         THEN /\ srPc' = "done"
              /\ srResult' = "resolved"
              /\ UNCHANGED <<emailsToSend, sends, srLog>>
         ELSE /\ emailsToSend' = recipientTasks(data)
              /\ IF Len(recipientTasks(data)) = 0
                   THEN /\ srLog' = Append(srLog, LogLine("No email addresses provided"))
                        /\ srPc' = "done"
                        /\ srResult' = "resolved"
                        /\ UNCHANGED sends
                   ELSE /\ sends' = emailPromises(data, recipientTasks(data))
                        /\ srPc' = "awaitAll"
                        /\ UNCHANGED <<srLog, srResult>>
    /\ UNCHANGED <<data, asVars, mcVars, fnVars>>

\* The send of task i settles. If the handler is at its await and this
\* settles Promise.all, the handler runs on to its end: the try block's
\* logging when it fulfilled, the catch block's when it rejected. A send that
\* settles after the handler has returned changes nothing else.
SettleSend(i, outcome) ==
    /\ srPc \in {"awaitAll", "done"}
    /\ i \in 1..Len(sends)
    /\ sends[i].state = "inflight"
    /\ LET settled == [sends EXCEPT ![i].state = outcome]
       IN  /\ sends' = settled
           /\ IF srPc = "awaitAll" /\ PromiseAll(settled) = "fulfilled"
                THEN /\ srLog' = srLog
                                 \o <<LogLine("Assessment emails sent successfully")>>
                                 \o statusLines(emailsToSend)
                     /\ srPc' = "done"
                     /\ srResult' = "resolved"
                ELSE IF srPc = "awaitAll" /\ PromiseAll(settled) = "rejected"
                THEN /\ srLog' = srLog \o failureLines
                     /\ srPc' = "done"
                     /\ srResult' = "resolved"
                ELSE UNCHANGED <<srPc, srLog, srResult>>
    /\ UNCHANGED <<data, asVars, emailsToSend, mcVars, fnVars>>

SendFulfils(i) == SettleSend(i, "fulfilled")

SendRejects(i) == SettleSend(i, "rejected")

\* addSubscriber (public/mailchimp.js) has not been called.
AddSubscriberIdle ==
    /\ asEmail = EmptyString
    /\ asPc = "idle"
    /\ asCalls = <<>>
    /\ asLog = <<>>
    /\ asResult = [state |-> "none", value |-> "none"]

(***************************************************************************)
(* The handlers' specification: one record is created, and each of the two *)
(* functions is invoked once with it; their steps interleave freely.       *)
(***************************************************************************)
Init ==
    /\ data \in Records
    /\ mcPc = "idle"
    /\ mcCalls = <<>>
    /\ mcLog = <<>>
    /\ mcResult = "none"
    /\ srPc = "idle"
    /\ emailsToSend = <<>>
    /\ sends = <<>>
    /\ srLog = <<>>
    /\ srResult = "none"
    /\ AddSubscriberIdle
    /\ score = 0
    /\ label = "none"
    /\ color = "none"
    /\ domainInterp = [label |-> "none", color |-> "none"]
    /\ domainScoresHtml = [done |-> FALSE, items |-> <<>>]

Next ==
    \/ SyncToMailchimp
    \/ MailchimpPutResolves
    \/ \E kind \in {"httpError", "networkError"} : MailchimpPutRejects(kind)
    \/ SendResultsEmail
    \/ \E i \in 1..Len(sends) : SendFulfils(i)
    \/ \E i \in 1..Len(sends) : SendRejects(i)

Spec == Init /\ [][Next]_vars

(***************************************************************************)
(* The scoring helpers applied to every score of the range.                *)
(***************************************************************************)
Scores == (0 - NegScores)..MaxScore

InitInterp ==
    /\ score \in Scores
    /\ label = "none"
    /\ color = "none"
    /\ domainInterp = [label |-> "none", color |-> "none"]
    /\ domainScoresHtml = [done |-> FALSE, items |-> <<>>]
    /\ data = NoData
    /\ mcPc = "idle"
    /\ mcCalls = <<>>
    /\ mcLog = <<>>
    /\ mcResult = "none"
    /\ srPc = "idle"
    /\ emailsToSend = <<>>
    /\ sends = <<>>
    /\ srLog = <<>>
    /\ srResult = "none"
    /\ AddSubscriberIdle

CallGetInterpretation ==
    /\ label = "none"
    /\ label' = getInterpretation(score)
    /\ UNCHANGED <<data, asVars, mcVars, srVars, score, color, domainInterp, domainScoresHtml>>

CallGetScoreColor ==
    /\ color = "none"
    /\ color' = getScoreColor(score)
    /\ UNCHANGED <<data, asVars, mcVars, srVars, score, label, domainInterp, domainScoresHtml>>

CallGetDomainInterpretation ==
    /\ domainInterp.label = "none"
    /\ domainInterp' = getDomainInterpretation(score)
    /\ UNCHANGED <<data, asVars, mcVars, srVars, score, label, color, domainScoresHtml>>

NextInterp ==
    \/ CallGetInterpretation
    \/ CallGetScoreColor
    \/ CallGetDomainInterpretation

SpecInterp == InitInterp /\ [][NextInterp]_vars

(***************************************************************************)
(* generateDomainScoresHtml applied to every domainScores mapping of at    *)
(* most MaxDomains entries over these names and scores.                    *)
(***************************************************************************)
\* "Kuleana" is a name the description table does not have.
DomainNames ==
    {"Attention Check", "Overall Wellness", "Physical Wellness", "Kuleana",
     "constructor"}

DomainScoreValues == {5, 12, 18}

DomainEntries == [domain : DomainNames, score : DomainScoreValues]

\* The keys of an object are distinct.
DomainMappings ==
    UNION { { m \in [1..n -> DomainEntries] :
                \A i, j \in 1..n : i # j => m[i].domain # m[j].domain }
            : n \in 0..MaxDomains }

RenderRecords ==
    { [NoData EXCEPT !.exists = TRUE, !.domainScores = ds] :
        ds \in {Absent(<<>>)} \cup { Present(m) : m \in DomainMappings } }

InitRender ==
    /\ data \in RenderRecords
    /\ domainScoresHtml = [done |-> FALSE, items |-> <<>>]
    /\ score = 0
    /\ label = "none"
    /\ color = "none"
    /\ domainInterp = [label |-> "none", color |-> "none"]
    /\ mcPc = "idle"
    /\ mcCalls = <<>>
    /\ mcLog = <<>>
    /\ mcResult = "none"
    /\ srPc = "idle"
    /\ emailsToSend = <<>>
    /\ sends = <<>>
    /\ srLog = <<>>
    /\ srResult = "none"
    /\ AddSubscriberIdle

CallGenerateDomainScoresHtml ==
    /\ ~domainScoresHtml.done
    /\ domainScoresHtml' = [done |-> TRUE, items |-> generateDomainScoresHtml(data)]
    /\ UNCHANGED <<data, asVars, mcVars, srVars, score, label, color, domainInterp>>

NextRender == CallGenerateDomainScoresHtml

SpecRender == InitRender /\ [][NextRender]_vars

(***************************************************************************)
(* addSubscriber (public/mailchimp.js) called once with every string of at *)
(* most MaxEmailLen characters; the API call ends in every way axios can   *)
(* end it.                                                                 *)
(***************************************************************************)
SubscriberEmails == UNION { [1..n -> {"a", "@", "B"}] : n \in 0..MaxEmailLen }

\* What the rejection's error can carry. A network error has no response.
\* An error response has a status and the parsed body as its data: an object
\* with the title 'Member Exists' or another title, the empty string when
\* the response has no body, or null when the body is the JSON text null.
NetworkError == [hasResponse |-> FALSE, status |-> 0, data |-> "none"]

PostErrors ==
    [hasResponse : {TRUE}, status : {400, 500},
     data : {"Member Exists", "Other Title", "", "null"}]
    \cup {NetworkError}

\* The request of axios.post(url, body, {auth}), with the state of its promise
\* and, once it has rejected, the error it rejected with.
MailchimpPost(email) ==
    [method |-> "POST",
     path |-> "/lists/1c98cb3a97/members",
     email_address |-> email,
     status |-> "subscribed",
     tags |-> <<"Audience", "AWG">>,
     state |-> "inflight",
     error |-> NetworkError]

\* error.response.data.title: reading a property of null throws a TypeError;
\* the empty string has no title.
titleThrows(err) == err.data = "null"

InitSubscriber ==
    /\ asEmail \in SubscriberEmails
    /\ asPc = "idle"
    /\ asCalls = <<>>
    /\ asLog = <<>>
    /\ asResult = [state |-> "none", value |-> "none"]
    /\ data = NoData
    /\ mcPc = "idle"
    /\ mcCalls = <<>>
    /\ mcLog = <<>>
    /\ mcResult = "none"
    /\ srPc = "idle"
    /\ emailsToSend = <<>>
    /\ sends = <<>>
    /\ srLog = <<>>
    /\ score = 0
    /\ label = "none"
    /\ color = "none"
    /\ domainInterp = [label |-> "none", color |-> "none"]
    /\ domainScoresHtml = [done |-> FALSE, items |-> <<>>]
    /\ srResult = "none"

\* The function up to its await.
AddSubscriber ==
    /\ asPc = "idle"
    /\ asCalls' = Append(asCalls, MailchimpPost(asEmail))
    /\ asPc' = "awaitPost"
    /\ UNCHANGED <<data, mcVars, srVars, fnVars, asEmail, asLog, asResult>>

\* The post resolves: the success line is logged and response.data returned.
PostResolves ==
    /\ asPc = "awaitPost"
    /\ asLog' = Append(asLog, "Mailchimp subscribed")
    /\ asResult' = [state |-> "resolved", value |-> "response.data"]
    /\ asCalls' = [asCalls EXCEPT ![Len(asCalls)].state = "fulfilled"]
    /\ asPc' = "done"
    /\ UNCHANGED <<data, mcVars, srVars, fnVars, asEmail>>

\* The post rejects with err: the catch block. Its condition reads
\* error.response.data.title once the response is there with status 400; if
\* that read throws, the error leaves the catch block and the returned
\* promise rejects. Otherwise one of the two lines is logged and the function
\* returns undefined.
PostRejects(err) ==
    /\ asPc = "awaitPost"
    /\ asPc' = "done"
    /\ asCalls' = [asCalls EXCEPT ![Len(asCalls)].state = "rejected",
                                  ![Len(asCalls)].error = err]
    /\ IF err.hasResponse /\ err.status = 400 /\ titleThrows(err)
         THEN /\ asResult' = [state |-> "rejected", value |-> "TypeError"]
              /\ UNCHANGED asLog
         ELSE IF err.hasResponse /\ err.status = 400 /\ err.data = "Member Exists"
         THEN /\ asLog' = Append(asLog, "Already subscribed")
              /\ asResult' = [state |-> "resolved", value |-> "undefined"]
         ELSE /\ asLog' = Append(asLog, "Mailchimp error")
              /\ asResult' = [state |-> "resolved", value |-> "undefined"]
    /\ UNCHANGED <<data, mcVars, srVars, fnVars, asEmail>>

NextSubscriber ==
    \/ AddSubscriber
    \/ PostResolves
    \/ \E err \in PostErrors : PostRejects(err)

SpecSubscriber == InitSubscriber /\ [][NextSubscriber]_vars

(***************************************************************************)
(* Properties                                                              *)
(***************************************************************************)
TaskRoles == {emailsToSend[i].type : i \in 1..Len(emailsToSend)}

NonEmpty(f) == f.has /\ f.v # EmptyString

\* C1: once sendResultsEmail has built its task list for a record: if the
\* record has a practitionerEmail or clientEmail field (whatever its value),
\* the list holds a 'client' task exactly when clientEmail is truthy, a
\* 'practitioner' task exactly when practitionerEmail is truthy, each with
\* that field's address, and never an 'original' task; otherwise it holds
\* exactly one 'original' task for email when email is truthy and is empty
\* when it is not. The list has at most two tasks, no role twice.
C1_RecipientDetermination ==
    (srPc # "idle" /\ data.exists) =>
        /\ Len(emailsToSend) <= 2
        /\ Len(emailsToSend) = Cardinality(TaskRoles)
        /\ (data.practitionerEmail.has \/ data.clientEmail.has) =>
              /\ ("client" \in TaskRoles) <=> NonEmpty(data.clientEmail)
              /\ ("practitioner" \in TaskRoles) <=> NonEmpty(data.practitionerEmail)
              /\ "original" \notin TaskRoles
              /\ \A i \in 1..Len(emailsToSend) :
                    emailsToSend[i].email =
                        IF emailsToSend[i].type = "client" THEN data.clientEmail.v
                        ELSE data.practitionerEmail.v
        /\ (~data.practitionerEmail.has /\ ~data.clientEmail.has) =>
              IF NonEmpty(data.email)
              THEN emailsToSend = <<[email |-> data.email.v, type |-> "original"]>>
              ELSE emailsToSend = <<>>

\* A record with a truthy email and both practitioner fields present but
\* empty has been routed: no task at all.
C1_Witness ==
    /\ srPc = "done"
    /\ NonEmpty(data.email)
    /\ data.clientEmail = Present(EmptyString)
    /\ data.practitionerEmail = Present(EmptyString)
    /\ emailsToSend = <<>>

\* C2: syncToMailchimp issues exactly one PUT, keyed by the hash of the
\* lowercased email, when the record has a truthy email and a
\* subscribeNewsletter field that is present and true, and no call in every
\* other case (every address of the model is a@b in lower case).
C2_SyncGuard ==
    IF /\ mcPc # "idle"
       /\ data.exists
       /\ NonEmpty(data.email)
       /\ data.subscribeNewsletter.has
       /\ data.subscribeNewsletter.v = TRUE
    THEN /\ Len(mcCalls) = 1
         /\ mcCalls[1].method = "PUT"
         /\ mcCalls[1].hash = md5hex(Addr1)
         /\ mcCalls[1].email_address = data.email.v
    ELSE mcCalls = <<>>

\* A record whose email is written in capitals was synced, keyed by the hash
\* of the address in lower case.
C2_Witness ==
    /\ mcPc = "done"
    /\ data.email.v = Addr2
    /\ Len(mcCalls) = 1
    /\ mcCalls[1].hash = md5hex(Addr1)

\* C3: at the moment sendResultsEmail returns, and ever after, no send is
\* still in flight.
C3_JoinAllSettled ==
    srPc = "done" => \A i \in 1..Len(sends) : sends[i].state # "inflight"

HasStatusLine == \E k \in 1..Len(srLog) : srLog[k].msg = "email - Status"

HasFailureLine ==
    \E k \in 1..Len(srLog) : srLog[k].msg = "Failed to send assessment emails"

\* C4: when sendResultsEmail has returned after sending: if any send failed
\* the run is logged as failed and no per-recipient status is logged, even
\* for sends that succeeded; statuses are logged, one per task, only when
\* every send succeeded; and the handler's promise resolves either way.
C4_AllOrNothing ==
    /\ srResult # "rejected"
    /\ (srPc = "done" /\ Len(sends) > 0) =>
          /\ srResult = "resolved"
          /\ (\E i \in 1..Len(sends) : sends[i].state = "rejected") =>
                HasFailureLine /\ ~HasStatusLine
          /\ HasStatusLine =>
                /\ \A i \in 1..Len(sends) : sends[i].state = "fulfilled"
                /\ ~HasFailureLine
          /\ (\A i \in 1..Len(sends) : sends[i].state = "fulfilled") =>
                /\ \A i \in 1..Len(emailsToSend) :
                      \E k \in 1..Len(srLog) :
                          srLog[k] = [msg |-> "email - Status",
                                      type |-> emailsToSend[i].type]
    /\ srPc = "awaitAll" => ~HasStatusLine /\ ~HasFailureLine

\* One of two sends succeeded, the other failed, and the handler returned.
C4_Witness ==
    /\ srPc = "done"
    /\ srResult = "resolved"
    /\ \E i, j \in 1..Len(sends) :
          sends[i].state = "fulfilled" /\ sends[j].state = "rejected"

\* C5: syncToMailchimp makes at most one API call; when the call fails the
\* error is logged and the handler ends there, its promise resolved.
C5_BestEffort ==
    /\ Len(mcCalls) <= 1
    /\ mcResult # "rejected"
    /\ mcPc = "done" => mcResult = "resolved"
    /\ (Len(mcCalls) = 1 /\ mcCalls[1].state \in {"httpError", "networkError"}) =>
          /\ mcPc = "done"
          /\ mcLog[Len(mcLog)] = "Mailchimp error"

\* The API call failed without a response and the handler has returned.
C5_Witness ==
    /\ mcPc = "done"
    /\ Len(mcCalls) = 1
    /\ mcCalls[1].state = "networkError"

BandOf(s, hi, mid, lo) ==
    IF s >= hi THEN "Thriving"
    ELSE IF mid <= s /\ s < hi THEN "Balanced"
    ELSE IF lo <= s /\ s < mid THEN "Needs Attention"
    ELSE "Critical"

\* green, blue, orange, red
BandColor(band) ==
    CASE band = "Thriving" -> "#22c55e"
      [] band = "Balanced" -> "#3b82f6"
      [] band = "Needs Attention" -> "#f59e0b"
      [] band = "Critical" -> "#ef4444"

\* C6: getInterpretation(s) is Thriving for s >= 252, Balanced for
\* 168 <= s < 252, Needs Attention for 84 <= s < 168 and Critical below 84,
\* and getScoreColor(s) is the colour of that same band.
C6_OverallInterpretation ==
    /\ label # "none" => label = BandOf(score, 252, 168, 84)
    /\ color # "none" => color = BandColor(BandOf(score, 252, 168, 84))
    /\ (label # "none" /\ color # "none") => color = BandColor(label)

\* Both helpers were applied to 251, just under the top band.
C6_Witness == score = 251 /\ label = "Balanced" /\ color = "#3b82f6"

\* C7: getDomainInterpretation(d) is Thriving for d >= 18, Balanced for
\* 12 <= d < 18, Needs Attention for 6 <= d < 12 and Critical below 6, with
\* the colour of that band.
C7_DomainInterpretation ==
    domainInterp.label # "none" =>
        /\ domainInterp.label = BandOf(score, 18, 12, 6)
        /\ domainInterp.color = BandColor(BandOf(score, 18, 12, 6))

\* The helper was applied to the boundary score 18.
C7_Witness == score = 18 /\ domainInterp.label = "Thriving"

\* C8: sendResultsEmail issues exactly one send per recipient task, all of
\* them by the time it awaits, and none otherwise; each send goes to the
\* task's address from the support address with the subject of the task's
\* role; with no task the handler ends without a send or an error.
C8_DispatchShape ==
    /\ srPc = "idle" => sends = <<>>
    /\ srPc # "idle" =>
          /\ Len(sends) = Len(emailsToSend)
          /\ \A i \in 1..Len(sends) :
                /\ sends[i].to = emailsToSend[i].email
                /\ sends[i].from = "support@pegasusrealm.com"
                /\ sends[i].subject =
                      IF emailsToSend[i].type \in {"original", "client"}
                      THEN "Your Pinnacle Wellness Assessment Results"
                      ELSE "Client Wellness Assessment Results"
    /\ (srPc # "idle" /\ emailsToSend = <<>>) =>
          /\ srPc = "done"
          /\ srResult = "resolved"
          /\ ~HasFailureLine

\* The handler is at its await with a client and a practitioner send issued.
C8_Witness ==
    /\ srPc = "awaitAll"
    /\ Len(sends) = 2
    /\ sends[1].state = "inflight"
    /\ sends[2].state = "inflight"
    /\ sends[2].subject = "Client Wellness Assessment Results"

MappingOf(d) == IF d.domainScores.has THEN d.domainScores.v ELSE <<>>

\* C9: the rendered domain list has exactly one entry for each domain of the
\* mapping (a missing mapping is empty) that is neither "Attention Check" nor
\* "Overall Wellness", with that domain's score and interpretation label, and
\* none for those two; a domain absent from the description table is
\* rendered without a description.
C9_DomainFiltering ==
    domainScoresHtml.done =>
        LET items == domainScoresHtml.items
            m == MappingOf(data)
        IN  /\ \A i \in 1..Len(m) :
                  Cardinality({k \in 1..Len(items) : items[k].domain = m[i].domain})
                    = IF m[i].domain \in {"Attention Check", "Overall Wellness"}
                      THEN 0 ELSE 1
            /\ \A k \in 1..Len(items) :
                  /\ \E i \in 1..Len(m) :
                        /\ m[i].domain = items[k].domain
                        /\ m[i].score = items[k].score
                  /\ items[k].label = BandOf(items[k].score, 18, 12, 6)
                  /\ items[k].domain \notin DOMAIN domainDescriptions =>
                        items[k].description = ""

SoloPuts(d) ==
    IF d.exists /\ ~SkipMailchimp(d) THEN <<MailchimpPut(d)>> ELSE <<>>

SoloSends(d) ==
    IF d.exists THEN emailPromises(d, recipientTasks(d)) ELSE <<>>

SameRequests(calls, solo) ==
    /\ Len(calls) = Len(solo)
    /\ \A i \in 1..Len(calls) :
          [calls[i] EXCEPT !.state = "inflight"] = solo[i]

\* C10: under every interleaving of the two handlers' steps, and whichever
\* calls fail, each handler issues the calls it issues when it runs alone
\* on the record, and no step changes the record.
C10_Independence ==
    /\ [](/\ SameRequests(mcCalls, IF mcPc = "idle" THEN <<>> ELSE SoloPuts(data))
          /\ SameRequests(sends, IF srPc = "idle" THEN <<>> ELSE SoloSends(data)))
    /\ [][data' = data]_vars

\* Both handlers ran on one record, the mailing-list call failed and a send
\* failed.
C10_Witness ==
    /\ mcPc = "done"
    /\ srPc = "done"
    /\ Len(mcCalls) = 1
    /\ mcCalls[1].state = "httpError"
    /\ Len(sends) = 1
    /\ sends[1].state = "rejected"

\* C11: addSubscriber makes exactly one POST call, with the address it was
\* given, and the promise it returns never rejects: when the call succeeds it
\* resolves to the response's data; when the call fails in any way (400
\* 'Member Exists', another error response with or without a body, no
\* response at all) a line is logged and it resolves to undefined.
C11_AddSubscriberNeverRejects ==
    /\ Len(asCalls) <= 1
    /\ asResult.state # "rejected"
    /\ asPc # "idle" =>
          /\ Len(asCalls) = 1
          /\ asCalls[1].method = "POST"
          /\ asCalls[1].email_address = asEmail
    /\ asPc = "done" =>
          /\ asResult.state = "resolved"
          /\ asCalls[1].state = "fulfilled" => asResult.value = "response.data"
          /\ asCalls[1].state = "rejected" =>
                /\ asResult.value = "undefined"
                /\ Len(asLog) = 1
                /\ asLog[1] \in {"Already subscribed", "Mailchimp error"}

====
